---------------------------- MODULE Spec2Model ----------------------------
(* Cricket-toss bet lifecycle of KingGames: the three route modules       *)
(*   "api"   server/cricket-toss-api.ts        (status column, team match) *)
(*   "games" server/cricket-toss.ts            (gameData.status)           *)
(*   "api2"  the second copy of cricket-toss-api.ts that follows           *)
(*           client/src/pages/user-management-page.tsx (lines 351-698)     *)
(* all working on the same `games` table, `users` table and team matches   *)
(* through the storage object, and the upload routes of                    *)
(* server/upload-routes.ts working on the files under uploads/.  Every handler is cut at its awaits: one    *)
(* action is one storage call together with the synchronous code that      *)
(* follows it up to the next await, so requests interleave exactly where   *)
(* the event loop lets them.                                               *)
EXTENDS Integers, Sequences, FiniteSets, TLC

VARIABLES games, matches, users, req, files

vars == <<games, matches, users, req, files>>

-----------------------------------------------------------------------------
(* Bounds of the model *)

\* rows the games table may hold (instances and bets together)
MaxGames == 2
\* requests that may be in flight at the same time
MaxReqs == 2
\* admin add-funds never raises a balance above this
MaxBalance == 30
\* names multer may give the files of one upload directory
MaxFiles == 4

(* Program constants *)

\* z.number().min(10, "Minimum bet amount is 10")
MinBet == 10
\* oddTeamA / oddTeamB: z.number().min(100).max(2000)
MinOdds == 100
MaxOdds == 2000
\* Math.floor((betAmount * odds) / 100)
OddsScale == 100

(* Money.  betAmount, balance and payout are JavaScript numbers; the      *)
(* schemas ask for z.number(), which has room for a fractional part.  The *)
(* model keeps every sum of money as a whole number of parts of the       *)
(* smallest currency unit, Unit parts to one unit: Units(n) is n units,   *)
(* and a value that is no multiple of Unit is a number with a fraction.   *)
Unit == 2

Units(n) == n * Unit

\* Number.isInteger
Whole(m) == m % Unit = 0

\* Math.floor of a sum of money
Floor(m) == (m \div Unit) * Unit

(* Inputs the requests draw from *)

AdminId == 1
PlayerId == AdminId + 1
\* an account with UserRole.SUBADMIN
SubadminId == PlayerId + 1
UserIds == {AdminId, PlayerId, SubadminId}
\* 0 is a request without a session (req.user undefined)
Callers == {0} \cup UserIds
Reqs == 1..MaxReqs
\* ids a request may name: every row the table can hold
GameIds == 1..MaxGames
\* ids of the team matches that exist
MatchIds == 1..3
BetAmounts == {Units(5), Units(15)}
BetOns == {"team_a", "team_b", "draw"}
\* <<oddTeamA, oddTeamB>> of a create request
OddsInputs == {<<150, 200>>, <<50, 150>>, <<150, 2500>>}
\* the lowest odds against the highest the create schema admits
OddsLimits == {<<MinOdds, MaxOdds>>}
StatusInputs == {"open", "closed", "resulted", "cancelled"}
ResultInputs == {"team_a", "team_b", "draw"}
\* betAmount values of a body: negative, zero, below the minimum, 10.5
\* (a number with a fraction) and 15
NumberAmounts == {Units(-15), 0, Units(5), Units(10) + 1, Units(15)}
AdjustAmounts == {Units(-10), Units(10)}
InitBalance == [u \in UserIds |-> IF u = PlayerId THEN Units(25) ELSE 0]

-----------------------------------------------------------------------------
(* shared/schema: TeamMatchResult.TEAM_A / TEAM_B *)
TeamResults == {"team_a", "team_b"}

(* A row of the games table.  status is the top-level status property of   *)
(* the row, gdStatus is gameData.status; "none" is a property the row was  *)
(* created without.  matchId / tossGameId are 0 when absent.               *)
NoGame == [userId |-> 0, gameType |-> "none", betAmount |-> 0,
           prediction |-> "none", status |-> "none", gdStatus |-> "none",
           oddTeamA |-> 0, oddTeamB |-> 0, result |-> "none", payout |-> 0,
           matchId |-> 0, tossGameId |-> 0]

NoMatch == [category |-> "none", status |-> "none", oddTeamA |-> 0, oddTeamB |-> 0]

(* A request slot: the handler's position and the locals it carries over   *)
(* its awaits.                                                             *)
Idle == [pc |-> "idle", mod |-> "none", uid |-> 0, gameId |-> 0,
         betAmount |-> 0, betOn |-> "none", arg |-> "none", bal |-> 0,
         oddTeamA |-> 0, oddTeamB |-> 0]

-----------------------------------------------------------------------------
(* storage: the persistence object the handlers call *)

getGame(id) == IF id \in 1..Len(games) THEN games[id] ELSE NoGame

createGame(row) == Append(games, row)

updateGameStatus(id, status) == [games EXCEPT ![id].status = status]

updateGameResult(id, result) == [games EXCEPT ![id].result = result]

getTeamMatch(id) == IF id \in DOMAIN matches THEN matches[id] ELSE NoMatch

getUser(id) == users[id]

updateUserBalance(id, balance) == [users EXCEPT ![id].balance = balance]

-----------------------------------------------------------------------------
Init ==
    /\ games = << >>
    /\ matches = <<[category |-> "cricket", status |-> "open",
                     oddTeamA |-> 150, oddTeamB |-> 200],
                    [category |-> "cricket", status |-> "closed",
                     oddTeamA |-> 150, oddTeamB |-> 200],
                    [category |-> "football", status |-> "open",
                     oddTeamA |-> 150, oddTeamB |-> 200]>>
    /\ users = [u \in UserIds |->
                  [balance |-> InitBalance[u], isBlocked |-> FALSE,
                   role |-> IF u = AdminId THEN "admin"
                            ELSE IF u = SubadminId THEN "subadmin"
                            ELSE "player"]]
    /\ req = [r \in Reqs |-> Idle]
    /\ files = {}

-----------------------------------------------------------------------------
(* Helpers shared by the handlers *)

\* a new request takes the first free slot (the slots are interchangeable)
Free(r) == req[r].pc = "idle" /\ \A q \in 1..(r - 1) : req[q].pc # "idle"

\* a request past its checks that will still insert a row
Creating(r) == req[r].pc \in {"play_debit", "play_create"}

\* the table is capped at MaxGames rows, counting the inserts still to come
RoomForRow == Len(games) + Cardinality({r \in Reqs : Creating(r)}) < MaxGames

\* requireAdmin: 0 when the request may proceed, else the status it answers
requireAdmin(u) ==
    IF u = 0 THEN 401
    ELSE IF users[u].role # "admin" THEN 403
    ELSE 0

\* createCricketTossSchema, the two odds fields
ValidOdds(o) == o >= MinOdds /\ o <= MaxOdds

\* updateCricketTossStatusSchema
ValidStatus(s) == s \in {"open", "closed", "resulted"}

\* a result schema that takes any string
ValidResult_AnyString(x) == TRUE

\* declareCricketTossResultSchema
ValidResult(x) == x \in TeamResults

\* playSchema without the minimum of the amount
ValidPlay_AnyAmount(amount, betOn) == betOn \in TeamResults

\* playSchema
ValidPlay(amount, betOn) == amount >= Units(MinBet) /\ betOn \in TeamResults

\* the odds of the other team
OddsFor_Swapped(betOn, oa, ob) == IF betOn = "team_a" THEN ob ELSE oa

\* const odds = betOn === TEAM_A ? oddTeamA : oddTeamB
OddsFor(betOn, oa, ob) == IF betOn = "team_a" THEN oa ELSE ob

\* Math.floor((betAmount * odds) / 100)
PotentialPayout(amount, odds) == Floor((amount * odds) \div OddsScale)

\* the row POST /api/cricket-toss inserts
NewGameApi(u, oa, ob) ==
    [NoGame EXCEPT !.userId = u, !.gameType = "cricket_toss", !.betAmount = 0,
                   !.prediction = "pending", !.status = "open",
                   !.oddTeamA = oa, !.oddTeamB = ob,
                   !.result = "pending", !.payout = 0]

\* the row POST /api/cricket-toss-games inserts
NewGameGames(u, oa, ob) ==
    [NoGame EXCEPT !.userId = u, !.gameType = "cricket_toss", !.betAmount = 0,
                   !.prediction = "pending", !.gdStatus = "open",
                   !.oddTeamA = oa, !.oddTeamB = ob,
                   !.result = "pending", !.payout = 0]

\* userBet of the play handlers: linked by matchId ("api") or by
\* gameData.tossGameId ("games", "api2")
UserBet(q) ==
    [NoGame EXCEPT !.userId = q.uid, !.gameType = "cricket_toss",
                   !.betAmount = q.betAmount, !.prediction = q.betOn,
                   !.gdStatus = "pending",
                   !.oddTeamA = q.oddTeamA, !.oddTeamB = q.oddTeamB,
                   !.result = "pending",
                   !.payout = PotentialPayout(q.betAmount,
                                  OddsFor(q.betOn, q.oddTeamA, q.oddTeamB)),
                   !.matchId = IF q.mod = "api" THEN q.gameId ELSE 0,
                   !.tossGameId = IF q.mod = "api" THEN 0 ELSE q.gameId]

\* res.status(code).json(...): the handler ends and its slot is free again.
\* The status code is what the caller sees; it is no part of the state.
Answer(r, code) == req' = [req EXCEPT ![r] = Idle]

-----------------------------------------------------------------------------
(* POST /api/cricket-toss (both copies of cricket-toss-api.ts) *)
CreateGameApi(r, u, oa, ob) ==
    /\ Free(r)
    /\ RoomForRow
    /\ IF requireAdmin(u) # 0
         THEN Answer(r, requireAdmin(u)) /\ UNCHANGED games
       ELSE IF ~(ValidOdds(oa) /\ ValidOdds(ob))
         THEN Answer(r, 400) /\ UNCHANGED games
       ELSE /\ games' = createGame(NewGameApi(u, oa, ob))
            /\ Answer(r, 201)
    /\ UNCHANGED <<matches, users, files>>

(* POST /api/cricket-toss-games *)
CreateGameGames(r, u, oa, ob) ==
    /\ Free(r)
    /\ RoomForRow
    /\ IF u = 0 \/ users[u].role # "admin"
         THEN Answer(r, 403) /\ UNCHANGED games
       ELSE IF ~(ValidOdds(oa) /\ ValidOdds(ob))
         THEN Answer(r, 400) /\ UNCHANGED games
       ELSE /\ games' = createGame(NewGameGames(u, oa, ob))
            /\ Answer(r, 201)
    /\ UNCHANGED <<matches, users, files>>

(* PATCH /api/cricket-toss/:id/status (both copies).  getGame is read    *)
(* only for the row's existence and gameType, which no handler changes,   *)
(* so the read and the write that follows it are one step.                *)
UpdateStatus(r, u, id, status) ==
    /\ Free(r)
    /\ IF requireAdmin(u) # 0
         THEN Answer(r, requireAdmin(u)) /\ UNCHANGED games
       ELSE IF ~ValidStatus(status)
         THEN Answer(r, 400) /\ UNCHANGED games
       ELSE IF getGame(id) = NoGame
         THEN Answer(r, 404) /\ UNCHANGED games
       ELSE IF getGame(id).gameType # "cricket_toss"
         THEN Answer(r, 400) /\ UNCHANGED games
       ELSE /\ games' = updateGameStatus(id, status)
            /\ Answer(r, 200)
    /\ UNCHANGED <<matches, users, files>>

(* PATCH /api/cricket-toss/:id/result of cricket-toss-api.ts, up to and   *)
(* with storage.updateGameResult(gameId, result).                         *)
DeclareResultApi(r, u, id, result) ==
    /\ Free(r)
    /\ IF requireAdmin(u) # 0
         THEN Answer(r, requireAdmin(u)) /\ UNCHANGED games
       ELSE IF ~ValidResult(result)
         THEN Answer(r, 400) /\ UNCHANGED games
       ELSE IF getGame(id) = NoGame
         THEN Answer(r, 404) /\ UNCHANGED games
       ELSE IF getGame(id).gameType # "cricket_toss"
         THEN Answer(r, 400) /\ UNCHANGED games
       ELSE /\ games' = updateGameResult(id, result)
            /\ req' = [req EXCEPT ![r] =
                         [Idle EXCEPT !.pc = "result_status", !.mod = "api",
                                      !.uid = u, !.gameId = id, !.arg = result]]
    /\ UNCHANGED <<matches, users, files>>

(* ... storage.updateGameStatus(gameId, "resulted"); res.json(updatedGame) *)
DeclareResultStatus(r) ==
    /\ req[r].pc = "result_status"
    /\ games' = updateGameStatus(req[r].gameId, "resulted")
    /\ Answer(r, 200)
    /\ UNCHANGED <<matches, users, files>>

(* PATCH /api/cricket-toss/:id/result of the second copy:                 *)
(* UPDATE games SET result = $1 WHERE id = $2, then getGame and res.json; *)
(* the status is not written.                                             *)
DeclareResultApi2(r, u, id, result) ==
    /\ Free(r)
    /\ IF requireAdmin(u) # 0
         THEN Answer(r, requireAdmin(u)) /\ UNCHANGED games
       ELSE IF ~ValidResult(result)
         THEN Answer(r, 400) /\ UNCHANGED games
       ELSE IF getGame(id) = NoGame
         THEN Answer(r, 404) /\ UNCHANGED games
       ELSE IF getGame(id).gameType # "cricket_toss"
         THEN Answer(r, 400) /\ UNCHANGED games
       ELSE /\ games' = updateGameResult(id, result)
            /\ Answer(r, 200)
    /\ UNCHANGED <<matches, users, files>>

-----------------------------------------------------------------------------
\* the sufficiency check weakened to "the account is not empty"
InsufficientBalance_NonEmpty(balance, betAmount) == balance <= 0

\* the sufficiency check turning away a bet of the whole balance
InsufficientBalance_AtBoundary(balance, betAmount) == balance <= betAmount

\* if (user.balance < betAmount) return 400 "Insufficient balance"
InsufficientBalance(balance, betAmount) == balance < betAmount

(* The play handlers, from the sufficiency check on (all three modules):  *)
(* user = storage.getUser(req.user.id); the request goes on to the debit  *)
(* with the balance it has read.                                          *)
PlayCheckBalance(r, m, u, id, amount, betOn, oa, ob) ==
    IF InsufficientBalance(getUser(u).balance, amount)
      THEN Answer(r, 400)
      ELSE req' = [req EXCEPT ![r] =
                        [Idle EXCEPT !.pc = "play_debit", !.mod = m,
                                     !.uid = u, !.gameId = id,
                                     !.betAmount = amount, !.betOn = betOn,
                                     !.bal = getUser(u).balance,
                                     !.oddTeamA = oa, !.oddTeamB = ob]]

(* POST /api/cricket-toss/:id/play of cricket-toss-api.ts, up to the      *)
(* debit: the bet is checked against the team match of that id.  The      *)
(* match is not written by these modules, so reading it and reading the   *)
(* user are one step.                                                     *)
PlayStartApi(r, u, id, amount, betOn) ==
    /\ Free(r)
    /\ RoomForRow
    /\ IF u = 0
         THEN Answer(r, 401)
       ELSE IF ~ValidPlay(amount, betOn)
         THEN Answer(r, 400)
       ELSE IF getTeamMatch(id) = NoMatch
         THEN Answer(r, 404)
       ELSE IF getTeamMatch(id).category # "cricket"
         THEN Answer(r, 400)
       ELSE IF getTeamMatch(id).status # "open"
         THEN Answer(r, 400)
       ELSE PlayCheckBalance(r, "api", u, id, amount, betOn,
                             getTeamMatch(id).oddTeamA, getTeamMatch(id).oddTeamB)
    /\ UNCHANGED <<games, matches, users, files>>

(* POST /api/cricket-toss-games/:id/play, up to the debit.  gameData of   *)
(* the row is written by no handler, so reading it and reading the user   *)
(* are one step.                                                          *)
PlayStartGames(r, u, id, amount, betOn) ==
    /\ Free(r)
    /\ RoomForRow
    /\ IF u = 0
         THEN Answer(r, 401)
       ELSE IF users[u].isBlocked
         THEN Answer(r, 403)
       ELSE IF ~ValidPlay(amount, betOn)
         THEN Answer(r, 400)
       ELSE IF getGame(id) = NoGame
         THEN Answer(r, 404)
       ELSE IF getGame(id).gameType # "cricket_toss"
         THEN Answer(r, 400)
       ELSE IF getGame(id).gdStatus # "open"
         THEN Answer(r, 400)
       ELSE PlayCheckBalance(r, "games", u, id, amount, betOn,
                             getGame(id).oddTeamA, getGame(id).oddTeamB)
    /\ UNCHANGED <<games, matches, users, files>>

(* POST /api/cricket-toss/:id/play of the second copy, up to the debit *)
PlayStartApi2(r, u, id, amount, betOn) ==
    /\ Free(r)
    /\ RoomForRow
    /\ IF u = 0
         THEN Answer(r, 401)
       ELSE IF ~ValidPlay(amount, betOn)
         THEN Answer(r, 400)
       ELSE IF getGame(id) = NoGame
         THEN Answer(r, 404)
       ELSE IF getGame(id).gameType # "cricket_toss"
         THEN Answer(r, 400)
       ELSE IF getGame(id).gdStatus # "open"
         THEN Answer(r, 400)
       ELSE PlayCheckBalance(r, "api2", u, id, amount, betOn,
                             getGame(id).oddTeamA, getGame(id).oddTeamB)
    /\ UNCHANGED <<games, matches, users, files>>

(* storage.updateUserBalance(user.id, user.balance - betAmount) *)
PlayDebit(r) ==
    /\ req[r].pc = "play_debit"
    /\ users' = updateUserBalance(req[r].uid, req[r].bal - req[r].betAmount)
    /\ req' = [req EXCEPT ![r].pc = "play_create"]
    /\ UNCHANGED <<games, matches, files>>

\* an insert step that takes the amount off the balance a second time
PlayCreate_DebitsAgain(r) ==
    /\ req[r].pc = "play_create"
    /\ games' = createGame(UserBet(req[r]))
    /\ users' = updateUserBalance(req[r].uid,
                                   users[req[r].uid].balance - req[r].betAmount)
    /\ Answer(r, 201)
    /\ UNCHANGED <<matches, files>>

(* storage.createGame(userBet); res.status(201) *)
PlayCreate(r) ==
    /\ req[r].pc = "play_create"
    /\ games' = createGame(UserBet(req[r]))
    /\ Answer(r, 201)
    /\ UNCHANGED <<matches, users, files>>

(* storage.createGame(userBet) rejects: catch (err) { next(err) } hands    *)
(* the error to the error middleware.  The balance written by the debit   *)
(* stays as it is: the catch block holds no compensating write.           *)
PlayCreateFails(r) ==
    /\ req[r].pc = "play_create"
    /\ Answer(r, 500)
    /\ UNCHANGED <<games, matches, users, files>>

-----
(* Account administration: PATCH /api/users/:id/balance {amount} and       *)
(* PATCH /api/users/:id/block | unblock, which the user-management page    *)
(* calls.  The server side follows section 4.4 of the design: a debit      *)
(* needs a sufficient balance and each call is atomic.                     *)
AdjustBalance(u, amount) ==
    /\ users[u].balance + amount >= 0
    /\ users[u].balance + amount <= Units(MaxBalance)
    /\ users' = [users EXCEPT ![u].balance = @ + amount]
    /\ UNCHANGED <<games, matches, req, files>>

BlockUser(u) ==
    /\ ~users[u].isBlocked
    /\ users' = [users EXCEPT ![u].isBlocked = TRUE]
    /\ UNCHANGED <<games, matches, req, files>>

UnblockUser(u) ==
    /\ users[u].isBlocked
    /\ users' = [users EXCEPT ![u].isBlocked = FALSE]
    /\ UNCHANGED <<games, matches, req, files>>

-----------------------------------------------------------------------------
(* server/upload-routes.ts.  A path is the sequence of its segments below *)
(* process.cwd(); `files` holds the paths of the regular files stored     *)
(* under uploads/.                                                        *)

\* path.join(process.cwd(), 'uploads') and the two directories below it
uploadsDir == <<"uploads">>
proofUploadsDir == uploadsDir \o <<"proofs">>
sliderUploadsDir == uploadsDir \o <<"sliders">>

\* the directories that exist once the module is loaded (mkdirSync)
Directories == {<< >>, uploadsDir, proofUploadsDir, sliderUploadsDir}

\* `proof-${uniqueSuffix}${ext}` and `slider-${uniqueSuffix}${ext}`
ProofNames == {"proof-" \o ToString(n) : n \in 1..MaxFiles}
SliderNames == {"slider-" \o ToString(n) : n \in 1..MaxFiles}

\* path.normalize over segments: "." is dropped, ".." leaves the directory
\* reached so far (and stays at the top when there is none)
RECURSIVE Normalize(_, _)
Normalize(done, rest) ==
    IF rest = << >> THEN done
    ELSE IF Head(rest) = "." THEN Normalize(done, Tail(rest))
    ELSE IF Head(rest) = ".."
      THEN Normalize(IF done = << >> THEN done ELSE SubSeq(done, 1, Len(done) - 1),
                     Tail(rest))
    ELSE Normalize(Append(done, Head(rest)), Tail(rest))

\* path.join(dir, filename), filename given by its segments
PathJoin(dir, filename) == Normalize(<< >>, dir \o filename)

\* fs.existsSync
existsSync(p) == p \in files \/ p \in Directories

\* the directory a path lies in
DirOf(p) == SubSeq(p, 1, Len(p) - 1)

\* fs.readdirSync(sliderUploadsDir)
readdirSliders == {p[Len(p)] : p \in {q \in files : DirOf(q) = sliderUploadsDir}}

\* the file of an upload request: the MIME type its part declares, as
\* <<type, subtype>>, whether its content is an image, and its size in MB
UploadFiles ==
    {[mimetype |-> <<"image", "png">>, image |-> TRUE, size |-> 1],
     [mimetype |-> <<"image", "png">>, image |-> TRUE, size |-> 3],
     [mimetype |-> <<"image", "jpeg">>, image |-> TRUE, size |-> 6],
     [mimetype |-> <<"application", "pdf">>, image |-> FALSE, size |-> 1],
     [mimetype |-> <<"image", "png">>, image |-> FALSE, size |-> 1]}

\* req.params.filename of a delete request, by segments (%2F decoded)
DeleteNames ==
    {<<n>> : n \in SliderNames}
      \cup {<<"..", "proofs", n>> : n \in ProofNames}
      \cup {<<"..", "sliders", n>> : n \in SliderNames}
      \cup {<<"missing.png">>, <<"..">>, <<".">>}

\* limits.fileSize of proofUpload and sliderUpload, in MB
ProofMaxSize == 5
SliderMaxSize == 2

\* fileFilter: file.mimetype.startsWith('image/')
fileFilter(f) == f.mimetype[1] = "image"

\* requireAuth: 0 when the request may proceed, else the status it answers
requireAuth(u) == IF u = 0 THEN 401 ELSE 0

\* requireAdmin of upload-routes.ts
requireAdminUpload(u) ==
    IF u = 0 \/ users[u].role # "admin" THEN 403 ELSE 0

(* POST /api/upload/proof: requireAuth, proofUpload.single('proofImage') *)
UploadProof(u, f, name) ==
    /\ name \in ProofNames
    /\ proofUploadsDir \o <<name>> \notin files
    /\ IF requireAuth(u) # 0 \/ ~fileFilter(f) \/ f.size > ProofMaxSize
         THEN UNCHANGED files
         ELSE files' = files \cup {proofUploadsDir \o <<name>>}
    /\ UNCHANGED <<games, matches, users, req>>

(* POST /api/upload/slider: requireAdmin, sliderUpload.single('sliderImage') *)
UploadSlider(u, f, name) ==
    /\ name \in SliderNames
    /\ sliderUploadsDir \o <<name>> \notin files
    /\ IF requireAdminUpload(u) # 0 \/ ~fileFilter(f) \/ f.size > SliderMaxSize
         THEN UNCHANGED files
         ELSE files' = files \cup {sliderUploadsDir \o <<name>>}
    /\ UNCHANGED <<games, matches, users, req>>

(* DELETE /api/sliders/:filename.  fs.unlinkSync removes a regular file   *)
(* and throws on a directory, which the catch answers with 500.           *)
DeleteSlider(u, filename) ==
    /\ LET filePath == PathJoin(sliderUploadsDir, filename) IN
         IF requireAdminUpload(u) # 0 THEN UNCHANGED files
         ELSE IF ~existsSync(filePath) THEN UNCHANGED files
         ELSE IF filePath \in Directories THEN UNCHANGED files
         ELSE files' = files \ {filePath}
    /\ UNCHANGED <<games, matches, users, req>>

NextUploads ==
    \/ \E u \in Callers, f \in UploadFiles, n \in ProofNames : UploadProof(u, f, n)
    \/ \E u \in Callers, f \in UploadFiles, n \in SliderNames : UploadSlider(u, f, n)
    \/ \E u \in Callers, n \in DeleteNames : DeleteSlider(u, n)

SpecUploads == Init /\ [][NextUploads]_vars

-----------------------------------------------------------------------------
(* the route handlers *)
Requests ==
    \/ \E r \in Reqs, u \in Callers, o \in OddsInputs :
          CreateGameApi(r, u, o[1], o[2])
    \/ \E r \in Reqs, u \in Callers, o \in OddsInputs :
          CreateGameGames(r, u, o[1], o[2])
    \/ \E r \in Reqs, u \in Callers, id \in GameIds, s \in StatusInputs :
          UpdateStatus(r, u, id, s)
    \/ \E r \in Reqs, u \in Callers, id \in GameIds, x \in ResultInputs :
          DeclareResultApi(r, u, id, x)
    \/ \E r \in Reqs : DeclareResultStatus(r)
    \/ \E r \in Reqs, u \in Callers, id \in GameIds, x \in ResultInputs :
          DeclareResultApi2(r, u, id, x)
    \/ \E r \in Reqs, u \in Callers, id \in MatchIds, a \in BetAmounts,
          b \in BetOns : PlayStartApi(r, u, id, a, b)
    \/ \E r \in Reqs, u \in Callers, id \in GameIds, a \in BetAmounts,
          b \in BetOns : PlayStartGames(r, u, id, a, b)
    \/ \E r \in Reqs, u \in Callers, id \in GameIds, a \in BetAmounts,
          b \in BetOns : PlayStartApi2(r, u, id, a, b)
    \/ \E r \in Reqs : PlayDebit(r)
    \/ \E r \in Reqs : PlayCreate(r)

Next ==
    \/ Requests
    \/ \E a \in AdjustAmounts : AdjustBalance(PlayerId, a)
    \/ BlockUser(PlayerId)
    \/ UnblockUser(PlayerId)

Spec == Init /\ [][Next]_vars

(* The same handlers with no admin balance adjustment: balances change    *)
(* through bet placement alone.                                           *)
NextBets ==
    \/ Requests
    \/ BlockUser(PlayerId)
    \/ UnblockUser(PlayerId)

SpecBets == Init /\ [][NextBets]_vars

(* The handlers of SpecBets over a storage whose insert may fail.         *)
NextFaults ==
    \/ NextBets
    \/ \E r \in Reqs : PlayCreateFails(r)

SpecFaults == Init /\ [][NextFaults]_vars

(* Bet placement with bodies whose betAmount is any JSON number.          *)
NextNumbers ==
    \/ \E r \in Reqs, u \in Callers, o \in OddsInputs \cup OddsLimits :
          CreateGameGames(r, u, o[1], o[2])
    \/ \E r \in Reqs, u \in Callers, id \in MatchIds, a \in NumberAmounts,
          b \in BetOns : PlayStartApi(r, u, id, a, b)
    \/ \E r \in Reqs, u \in Callers, id \in GameIds, a \in NumberAmounts,
          b \in BetOns : PlayStartGames(r, u, id, a, b)
    \/ \E r \in Reqs, u \in Callers, id \in GameIds, a \in NumberAmounts,
          b \in BetOns : PlayStartApi2(r, u, id, a, b)
    \/ \E r \in Reqs : PlayDebit(r)
    \/ \E r \in Reqs : PlayCreate(r)

SpecNumbers == Init /\ [][NextNumbers]_vars

-----------------------------------------------------------------------------
(* Vocabulary of the properties *)

Rows == 1..Len(games)

\* a row an operator created: a game instance
IsInstance(row) == row.betAmount = 0 /\ row.prediction = "pending"

\* a row a play handler created: a bet
IsBet(row) == row.betAmount > 0

\* the bet row names instance id: by matchId or by gameData.tossGameId
BetOf(row, id) == IsBet(row) /\ (row.matchId = id \/ row.tossGameId = id)

\* what the bet row was placed on: the team match (matchId) or the
\* instance (gameData.tossGameId), which carries the odds
BetSource(row) == IF row.matchId # 0 THEN matches[row.matchId]
                  ELSE games[row.tossGameId]

\* a bet still waiting for its result: gameData.status 'pending'
Pending(row) == row.gdStatus = "pending"

\* the lifecycle status of an instance: the status property once it has
\* one, else the gameData.status it was created with
InstanceStatus(row) == IF row.status # "none" THEN row.status ELSE row.gdStatus

Rank(s) == CASE s = "open" -> 0 [] s = "closed" -> 1 [] s = "resulted" -> 2
             [] OTHER -> 0

RECURSIVE SumBetsUpTo(_, _)
SumBetsUpTo(u, n) ==
    IF n = 0 THEN 0
    ELSE SumBetsUpTo(u, n - 1)
           + (IF games[n].userId = u /\ IsBet(games[n]) THEN games[n].betAmount ELSE 0)

\* the amounts of all bets user u has placed
SumBets(u) == SumBetsUpTo(u, Len(games))

\* the bet row of table t on instance id has been settled as a win
Won(t, b, id) == BetOf(t[b], id) /\ ~Pending(t[b]) /\ t[b].prediction = t[id].result

RECURSIVE WonPayoutsUpTo(_, _, _)
WonPayoutsUpTo(t, id, n) ==
    IF n = 0 THEN 0
    ELSE WonPayoutsUpTo(t, id, n - 1) + (IF Won(t, n, id) THEN t[n].payout ELSE 0)

\* the payouts stored with the Won bets of instance id in table t
WonPayouts(t, id) == WonPayoutsUpTo(t, id, Len(t))

RECURSIVE WinningsUpTo(_, _, _, _)
WinningsUpTo(t, id, o, n) ==
    IF n = 0 THEN 0
    ELSE WinningsUpTo(t, id, o, n - 1)
           + (IF BetOf(t[n], id) /\ t[n].prediction = o
                THEN Floor((t[n].betAmount * OddsFor(o, t[id].oddTeamA, t[id].oddTeamB))
                             \div OddsScale)
                ELSE 0)

\* what outcome o of instance id pays in all: floor(amount * odds[o] / 100)
\* over the bets of table t placed on o
Winnings(t, id, o) == WinningsUpTo(t, id, o, Len(t))

RECURSIVE SumBalances(_, _)
SumBalances(us, S) ==
    IF S = {} THEN 0
    ELSE LET u == CHOOSE x \in S : TRUE
         IN us[u].balance + SumBalances(us, S \ {u})

\* the balances of all accounts together
TotalBalance(us) == SumBalances(us, UserIds)

\* GameHistoryTable: const isWin = game.payout > 0
IsWin(row) == row.payout > 0

\* GameHistoryTable, the Profit/Loss cell:
\* isWin ? game.payout - game.betAmount : -game.betAmount
ShownProfit(row) == IF IsWin(row) THEN row.payout - row.betAmount
                    ELSE 0 - row.betAmount

\* GET /api/cricket-toss
ListedApi(row) == row.gameType = "cricket_toss"

\* GET /api/cricket-toss-games
ListedGames(row) ==
    /\ row.gameType = "cricket_toss"
    /\ row.userId = AdminId
    /\ row.matchId = 0

\* GET /api/cricket-toss/active of cricket-toss-api.ts
ActiveApi(row) == row.gameType = "cricket_toss" /\ row.status = "open"

\* GET /api/cricket-toss/active of the second copy
ActiveApi2(row) == row.gameType = "cricket_toss" /\ row.gdStatus = "open"

\* GET /api/cricket-toss-games/active
ActiveGames(row) ==
    /\ row.gameType = "cricket_toss"
    /\ row.userId = AdminId
    /\ row.matchId = 0
    /\ row.gdStatus = "open"

\* the checks POST /api/cricket-toss/:id/play of cricket-toss-api.ts makes
\* on the id: the team match with that id is a cricket match and open
OpenForPlayApi(id) ==
    /\ getTeamMatch(id) # NoMatch
    /\ getTeamMatch(id).category = "cricket"
    /\ getTeamMatch(id).status = "open"

\* the game-type and open checks of the second copy's play route
OpenForPlayApi2(row) == row.gameType = "cricket_toss" /\ row.gdStatus = "open"

\* the game-type and open checks of POST /api/cricket-toss-games/:id/play
OpenForPlayGames(row) == row.gameType = "cricket_toss" /\ row.gdStatus = "open"

\* the caller is signed in with role Admin or Subadmin
Operator(u) == u # 0 /\ users[u].role \in {"admin", "subadmin"}

\* request r passes the checks of a play handler in this step
PlayAccepted(r) == req[r].pc = "idle" /\ req'[r].pc = "play_debit"

\* request r writes the debited balance in this step
PlayDebits(r) == req[r].pc = "play_debit" /\ req'[r].pc = "play_create"

\* request r inserts its bet row in this step
PlayCreates(r) == req[r].pc = "play_create" /\ req'[r].pc = "idle"

\* request r finishes a result declaration of cricket-toss-api.ts in this step
DeclareCompletes(r) == req[r].pc = "result_status" /\ req'[r].pc = "idle"

\* an add-funds or remove-funds request of the user-management page changes
\* the balance of account u in this step
FundsAdjusted(u) ==
    /\ req' = req
    /\ games' = games
    /\ \E a \in AdjustAmounts : users'[u].balance = users[u].balance + a

\* the second copy's result route declares a result on row id in this step
DeclaresAtOnce(id) == games'[id].result # games[id].result /\ req' = req

-----------------------------------------------------------------------------
(* C1: the status of an instance only moves forward along                 *)
(* Open -> Closed -> Resulted: no step takes it from Closed back to Open, *)
(* and no step changes it once it is Resulted.                            *)
C1_StatusMonotonic ==
    [][\A id \in Rows :
          IsInstance(games[id]) /\ games[id].status \in {"open", "closed", "resulted"}
            => /\ Rank(games'[id].status) >= Rank(games[id].status)
               /\ games'[id].status \in {"open", "closed", "resulted"}]_vars

(* C2: two concurrent place-bet requests of one user never both pass the  *)
(* sufficiency check against the same stale balance: the amounts of the   *)
(* bets a user has placed never add up to more than the balance the       *)
(* account started with, and once no placement of the user is in flight   *)
(* the balance is the initial balance minus the sum of those amounts.     *)
C2_NoJointOverdraw ==
    \A u \in UserIds :
       /\ SumBets(u) <= InitBalance[u]
       /\ (\A r \in Reqs : ~(Creating(r) /\ req[r].uid = u))
             => users[u].balance = InitBalance[u] - SumBets(u)

(* C3: declaring a result on an instance that is already Resulted changes *)
(* nothing: the recorded result of a Resulted instance stays what the     *)
(* first declaration made it, whichever outcome the second call names.    *)
C3_RedeclareChangesNothing ==
    [][\A id \in Rows :
          (/\ IsInstance(games[id])
           /\ games[id].status = "resulted"
           /\ games[id].result \in TeamResults)
            => games'[id].result = games[id].result]_vars

(* C4: when a declare-result with outcome o has been carried out on an   *)
(* instance, no bet that was placed on that instance is Pending any more: *)
(* a bet that predicted o is won and credited, every other bet is lost    *)
(* with payout 0.                                                         *)
C4_DeclareSettlesBets ==
    [][\A id \in Rows :
          (/\ IsInstance(games[id])
           /\ \/ \E r \in Reqs : DeclareCompletes(r) /\ req[r].gameId = id
              \/ DeclaresAtOnce(id))
            => \A b \in Rows :
                  BetOf(games[b], id)
                    => /\ ~Pending(games'[b])
                       /\ (games'[b].prediction # games'[id].result
                             => games'[b].payout = 0)]_vars

(* C5: in every reachable state, under every interleaving of place-bet,   *)
(* admin balance adjustment and result declaration, every account's       *)
(* balance is at least 0.                                                 *)
C5_BalanceNonNegative == \A u \in UserIds : users[u].balance >= 0

\* two placements of the player went through on one stale balance and
\* emptied the account
C5_Witness ==
    /\ Len(games) = 2
    /\ \A b \in Rows : IsBet(games[b]) /\ games[b].userId = PlayerId
    /\ SumBets(PlayerId) > InitBalance[PlayerId]
    /\ users[PlayerId].balance = 0

(* C6: a place-bet against an instance whose status is Closed or Resulted *)
(* is rejected: no play request passes its checks while the instance it   *)
(* names is not Open.                                                     *)
C6_ClosedRejectsBets ==
    [][\A r \in Reqs :
          PlayAccepted(r)
            => LET id == req'[r].gameId IN
                 ~(id \in Rows /\ IsInstance(games[id])
                     /\ InstanceStatus(games[id]) \in {"closed", "resulted"})]_vars

(* C7: a bet row is created only while the instance it names is Open at   *)
(* the moment of creation.                                                *)
C7_BetCreatedOnlyWhileOpen ==
    [][\A r \in Reqs :
          PlayCreates(r)
            => LET id == req[r].gameId IN
                 (id \in Rows /\ IsInstance(games[id]))
                    => InstanceStatus(games[id]) = "open"]_vars

(* C8: a valid placement takes exactly the bet amount off the balance the *)
(* account has when it is debited, and creates exactly one new bet, which *)
(* is Pending.                                                            *)
C8_PlacementDebitsAmount ==
    [][\A r \in Reqs :
          /\ PlayDebits(r)
               => users'[req[r].uid].balance
                     = users[req[r].uid].balance - req[r].betAmount
          /\ PlayCreates(r)
               => /\ Len(games') = Len(games) + 1
                  /\ Pending(games'[Len(games')])
                  /\ games'[Len(games')].result = "pending"]_vars

(* C9: every bet that is Pending has payout 0.                            *)
C9_PendingPayoutZero ==
    \A b \in Rows : IsBet(games[b]) /\ Pending(games[b]) => games[b].payout = 0

(* C10: a place-bet of a user whose account is blocked when the request   *)
(* arrives is rejected on every play route.                               *)
C10_BlockedAccountRejected ==
    [][\A r \in Reqs :
          PlayAccepted(r) => ~users[req'[r].uid].isBlocked]_vars

(* C11: bet placement is atomic: when creating the bet row fails after    *)
(* the debit, the debit is rolled back, so once no placement of a user is *)
(* in flight the balance the account started with minus its current       *)
(* balance is the sum of the amounts of the user's bets.                  *)
C11_NoDebitWithoutBet ==
    \A u \in UserIds :
       (\A r \in Reqs : ~(Creating(r) /\ req[r].uid = u))
          => InitBalance[u] - users[u].balance = SumBets(u)

(* C12: the settlement of an instance is atomic: no state shows a         *)
(* declaration partly applied.  An instance whose result is recorded has  *)
(* status Resulted and none of its bets is Pending.                       *)
C12_SettlementAtomic ==
    \A id \in Rows :
       (IsInstance(games[id]) /\ games[id].result \in TeamResults)
          => /\ games[id].status = "resulted"
             /\ \A b \in Rows : BetOf(games[b], id) => ~Pending(games[b])

(* C13: the sufficiency check at its boundary.  Wherever a play route     *)
(* accepts a bet of the player at all, it accepts a bet of exactly the    *)
(* current balance, and the debit of such a bet leaves the balance 0; a   *)
(* bet of one unit more than the current balance is accepted nowhere, so  *)
(* balance and bets stay as they are.                                     *)
C13_BoundaryBalance ==
    LET bal == users[PlayerId].balance IN
    /\ \A r \in Reqs, b \in TeamResults :
          /\ \A id \in MatchIds :
                /\ ENABLED (PlayStartApi(r, PlayerId, id, Units(MinBet), b) /\ PlayAccepted(r))
                      => ENABLED (PlayStartApi(r, PlayerId, id, bal, b) /\ PlayAccepted(r))
                /\ ~ENABLED (PlayStartApi(r, PlayerId, id, bal + Units(1), b) /\ PlayAccepted(r))
          /\ \A id \in GameIds :
                /\ ENABLED (PlayStartGames(r, PlayerId, id, Units(MinBet), b) /\ PlayAccepted(r))
                      => ENABLED (PlayStartGames(r, PlayerId, id, bal, b) /\ PlayAccepted(r))
                /\ ~ENABLED (PlayStartGames(r, PlayerId, id, bal + Units(1), b) /\ PlayAccepted(r))
                /\ ENABLED (PlayStartApi2(r, PlayerId, id, Units(MinBet), b) /\ PlayAccepted(r))
                      => ENABLED (PlayStartApi2(r, PlayerId, id, bal, b) /\ PlayAccepted(r))
                /\ ~ENABLED (PlayStartApi2(r, PlayerId, id, bal + Units(1), b) /\ PlayAccepted(r))
    /\ \A r \in Reqs :
          (req[r].pc = "play_debit" /\ req[r].betAmount = req[r].bal)
             => ~ENABLED (PlayDebit(r) /\ users'[req[r].uid].balance # 0)

\* a bet of the whole balance went through: the account is empty and the
\* one bet of the player carries what the account held
C13_Witness ==
    /\ users[PlayerId].balance = 0
    /\ \E b \in Rows :
          /\ IsBet(games[b])
          /\ games[b].userId = PlayerId
          /\ SumBets(PlayerId) = games[b].betAmount
    /\ \A r \in Reqs : req[r].pc = "idle"

(* C14: the payout stored with a bet is floor(amount * odds / 100), the   *)
(* odds being those of the team the bet is on (oddTeamA for team_a,       *)
(* oddTeamB for team_b) of the instance or match the bet names, always    *)
(* rounded down; odds 150 and amount 1000 give 1500.                      *)
C14_PayoutFloorOfOdds ==
    /\ \A b \in Rows :
          IsBet(games[b])
            => LET odds == IF games[b].prediction = "team_a"
                             THEN BetSource(games[b]).oddTeamA
                             ELSE BetSource(games[b]).oddTeamB
               IN /\ Whole(games[b].payout)
                  /\ games[b].payout * OddsScale <= games[b].betAmount * odds
                  /\ games[b].betAmount * odds
                        < (games[b].payout + Units(1)) * OddsScale
    /\ PotentialPayout(Units(1000), OddsFor("team_a", 150, 200)) = Units(1500)

\* both teams have been bet on, and one payout was rounded down
C14_Witness ==
    /\ \E b \in Rows : IsBet(games[b]) /\ games[b].prediction = "team_a"
                           /\ games[b].payout * OddsScale
                                 < games[b].betAmount * BetSource(games[b]).oddTeamA
    /\ \E b \in Rows : IsBet(games[b]) /\ games[b].prediction = "team_b"

(* C15: conservation at settlement: when a declaration with outcome o has *)
(* been carried out on an instance, the persisted payouts of its Won bets *)
(* add up to the sum of floor(amount * odds[o] / 100) over its bets on o, *)
(* and the balances of the accounts have grown by that sum in all.        *)
C15_SettlementConserves ==
    [][\A id \in Rows :
          (/\ IsInstance(games[id])
           /\ \/ \E r \in Reqs : DeclareCompletes(r) /\ req[r].gameId = id
              \/ DeclaresAtOnce(id))
            => LET o == games'[id].result IN
               /\ WonPayouts(games', id) = Winnings(games, id, o)
               /\ TotalBalance(users') - TotalBalance(users)
                     = Winnings(games, id, o)]_vars

(* C16: closing succeeds only on an instance that is Open: a step that    *)
(* makes the status of an instance closed starts from status Open; an     *)
(* instance that is Closed or Resulted is left as it is.                  *)
C16_CloseOnlyFromOpen ==
    [][\A id \in Rows :
          (/\ IsInstance(games[id])
           /\ games'[id].status = "closed"
           /\ games[id].status # "closed")
            => InstanceStatus(games[id]) = "open"]_vars

(* C17: after a successful declare-result with outcome o, on every route  *)
(* that declares a result, the recorded result of the instance is o and   *)
(* its status is Resulted.                                                *)
C17_DeclareRecordsResult ==
    [][\A id \in Rows :
          IsInstance(games[id])
            => /\ \A r \in Reqs :
                     (DeclareCompletes(r) /\ req[r].gameId = id)
                        => /\ games'[id].result = req[r].arg
                           /\ games'[id].status = "resulted"
               /\ DeclaresAtOnce(id)
                     => /\ games'[id].result \in TeamResults
                        /\ games'[id].status = "resulted"]_vars

(* C18: an instance a successful create returns is Open as every other    *)
(* operation sees it: right after its creation it is in the active-games  *)
(* listing and passes the open check of the play route, in both copies of *)
(* the module whose create made it.                                       *)
C18_CreatedInstanceIsOpen ==
    [][\A n \in 1..Len(games') :
          (n > Len(games) /\ IsInstance(games'[n]))
            => IF games'[n].status = "open"
                 THEN /\ ActiveApi(games'[n])
                      /\ ActiveApi2(games'[n])
                      /\ OpenForPlayApi2(games'[n])
                 ELSE /\ ActiveGames(games'[n])
                      /\ OpenForPlayGames(games'[n])]_vars

(* C19: creating an instance, updating its status and declaring its       *)
(* result are allowed for an authenticated caller whose role is Admin or  *)
(* Subadmin, and rejected for every other caller (a player, a request     *)
(* without a session) without creating or changing any instance.         *)
C19_OperatorRoles ==
    \A r \in Reqs, u \in Callers :
       Free(r)
         => IF Operator(u)
              THEN /\ RoomForRow
                      => /\ ENABLED (CreateGameApi(r, u, 150, 200)
                                       /\ Len(games') = Len(games) + 1)
                         /\ ENABLED (CreateGameGames(r, u, 150, 200)
                                       /\ Len(games') = Len(games) + 1)
                   /\ \A id \in Rows :
                         IsInstance(games[id])
                           => /\ games[id].status = "closed"
                                 \/ ENABLED (UpdateStatus(r, u, id, "closed")
                                               /\ games'[id].status = "closed")
                              /\ games[id].result = "team_a"
                                 \/ ENABLED (DeclareResultApi(r, u, id, "team_a")
                                               /\ games'[id].result = "team_a")
                              /\ games[id].result = "team_a"
                                 \/ ENABLED (DeclareResultApi2(r, u, id, "team_a")
                                               /\ games'[id].result = "team_a")
              ELSE /\ \A o \in OddsInputs :
                         /\ ~ENABLED (CreateGameApi(r, u, o[1], o[2]) /\ games' # games)
                         /\ ~ENABLED (CreateGameGames(r, u, o[1], o[2]) /\ games' # games)
                   /\ \A id \in GameIds :
                         /\ \A st \in StatusInputs :
                               ~ENABLED (UpdateStatus(r, u, id, st) /\ games' # games)
                         /\ \A x \in ResultInputs :
                               /\ ~ENABLED (DeclareResultApi(r, u, id, x) /\ games' # games)
                               /\ ~ENABLED (DeclareResultApi2(r, u, id, x) /\ games' # games)

C21_AmountsWholeWithinLimits ==
    /\ \A r \in Reqs :
          Creating(r) => /\ Whole(req[r].betAmount)
                         /\ req[r].betAmount >= Units(MinBet)
    /\ \A b \in Rows :
          IsBet(games[b]) => /\ Whole(games[b].betAmount)
                             /\ games[b].betAmount >= Units(MinBet)
    /\ \A u \in UserIds : Whole(users[u].balance)

(* C22: every bet that is created has a prediction in {team_a, team_b}    *)
(* and every declared result is in {team_a, team_b}; a place-bet or       *)
(* declare-result request that carries any other value is rejected and    *)
(* changes no balance, bet or instance.                                   *)
C22_OutcomesAreTeams ==
    /\ \A b \in Rows :
          /\ IsBet(games[b]) => games[b].prediction \in TeamResults
          /\ games[b].result \in TeamResults \cup {"pending"}
    /\ \A r \in Reqs :
          /\ Creating(r) => req[r].betOn \in TeamResults
          /\ req[r].pc = "result_status" => req[r].arg \in TeamResults
    /\ \A r \in Reqs, u \in Callers :
          /\ \A b \in BetOns \ TeamResults, a \in BetAmounts :
                /\ \A id \in MatchIds :
                      ~ENABLED (PlayStartApi(r, u, id, a, b) /\ vars' # vars)
                /\ \A id \in GameIds :
                      /\ ~ENABLED (PlayStartGames(r, u, id, a, b) /\ vars' # vars)
                      /\ ~ENABLED (PlayStartApi2(r, u, id, a, b) /\ vars' # vars)
          /\ \A x \in ResultInputs \ TeamResults, id \in GameIds :
                /\ ~ENABLED (DeclareResultApi(r, u, id, x) /\ vars' # vars)
                /\ ~ENABLED (DeclareResultApi2(r, u, id, x) /\ vars' # vars)

\* a result has been declared on an instance and a bet on a team is stored
C22_Witness ==
    /\ \E id \in Rows : IsInstance(games[id]) /\ games[id].result \in TeamResults
    /\ \E b \in Rows : IsBet(games[b]) /\ games[b].prediction \in TeamResults

C24_ResultIffResulted ==
    \A id \in Rows :
       IsInstance(games[id])
         => (games[id].result # "pending" <=> games[id].status = "resulted")

(* C25: the active-games listing and bet acceptance agree: in every       *)
(* reachable state an instance is returned by the active listing of a     *)
(* route module if and only if a valid place-bet against its id through   *)
(* the same module passes the is-open check.                              *)
C25_ListingAgreesWithPlay ==
    \A id \in Rows :
       IsInstance(games[id])
         => /\ ActiveApi(games[id]) <=> OpenForPlayApi(id)
            /\ ActiveGames(games[id]) <=> OpenForPlayGames(games[id])

(* C26: bet rows are never treated as game instances: the game listings   *)
(* return no bet row, and no request changes the status or the result of  *)
(* a bet row (a status-update or declare-result request that names the id *)
(* of a bet row is rejected).                                             *)
C26_BetRowsAreNotInstances ==
    [][\A b \in Rows :
          IsBet(games[b])
            => /\ ~ListedApi(games[b])
               /\ ~ListedGames(games[b])
               /\ games'[b].status = games[b].status
               /\ games'[b].result = games[b].result]_vars

(* C27: every instance that exists has both odds in the range 100..2000,  *)
(* and consequently the payout stored on every bet is at least the        *)
(* amount of the bet.                                                     *)
C27_PayoutAtLeastAmount ==
    /\ \A id \in Rows :
          IsInstance(games[id])
            => ValidOdds(games[id].oddTeamA) /\ ValidOdds(games[id].oddTeamB)
    /\ \A b \in Rows :
          IsBet(games[b]) => games[b].payout >= games[b].betAmount

(* C28: the game-history table shows a bet as a win only if the bet was   *)
(* settled as Won: every bet row that is still Pending is not shown as a  *)
(* win, and its Profit/Loss cell shows minus the amount of the bet.       *)
C28_PendingNotShownAsWin ==
    \A b \in Rows :
       (IsBet(games[b]) /\ Pending(games[b]))
          => /\ ~IsWin(games[b])
             /\ ShownProfit(games[b]) = 0 - games[b].betAmount

(* C29: upload authorization: a slider image is stored or deleted only by *)
(* an authenticated caller with role admin, a proof image is stored only  *)
(* by an authenticated caller, and a request that fails these checks or   *)
(* carries a file that is not an image leaves the stored files unchanged. *)
C29_UploadAuthorization ==
    /\ \A u \in Callers, f \in UploadFiles :
          /\ \A n \in SliderNames :
                (u = 0 \/ users[u].role # "admin" \/ ~f.image)
                   => ~ENABLED (UploadSlider(u, f, n) /\ files' # files)
          /\ \A n \in ProofNames :
                (u = 0 \/ ~f.image)
                   => ~ENABLED (UploadProof(u, f, n) /\ files' # files)
    /\ \A u \in Callers, d \in DeleteNames :
          (u = 0 \/ users[u].role # "admin")
             => ~ENABLED (DeleteSlider(u, d) /\ files' # files)

(* C30: DELETE /api/sliders/:filename removes exactly the named file of   *)
(* the sliders directory and nothing else: a step removes at most one     *)
(* file, the file it removes lies in the sliders directory and is no      *)
(* longer listed by GET /api/sliders, every other file listed before is   *)
(* still listed, and a name that does not exist removes nothing.          *)
C30_DeleteOnlyNamedSlider ==
    [][/\ Cardinality(files \ files') <= 1
       /\ \A p \in files \ files' :
             /\ DirOf(p) = sliderUploadsDir
             /\ readdirSliders' = readdirSliders \ {p[Len(p)]}]_vars

=============================================================================
